---- MODULE Spec2Model ----
(***************************************************************************)
(* Model of generate_bicycles_from_sheets (src/Bicycle_Pertmuts.py).        *)
(*                                                                         *)
(* A cell is a record [na, s]: na = TRUE is the pandas missing value (NaN), *)
(* otherwise s is the cell's text.  A DataFrame is [columns, rows], every   *)
(* row as long as columns.  A Python dict is a sequence of [k, v] pairs in  *)
(* insertion order: assigning an existing key keeps the key's position.     *)
(* The workbook `sheets` is a dict from sheet name to DataFrame, as          *)
(* pd.read_excel(sheet_name=None, dtype=str) returns it: sheet names are    *)
(* distinct, the column headers of a sheet are distinct, and a cell is text *)
(* or missing.  The text values used never spell "nan", the text a missing  *)
(* key cell turns into under astype(str).                                   *)
(*                                                                         *)
(* An operator described as a variant of the one that follows it is a       *)
(* faulty version of that code, used to show that a property depends on it. *)
(***************************************************************************)
EXTENDS Integers, Sequences, FiniteSets, TLC

VARIABLES sheets, id_separator, precedence,
          pc, designator_names, lists_of_values, general,
          designator_sheet_map, combos, sheet_application_order,
          ci, bike, bicycles

vars == <<sheets, id_separator, precedence, pc, designator_names,
          lists_of_values, general, designator_sheet_map, combos,
          sheet_application_order, ci, bike, bicycles>>

inputs == <<sheets, id_separator, precedence>>

-----------------------------------------------------------------------------
(* Cells and stringification *)

NaN == [na |-> TRUE, s |-> ""]

Cell(text) == [na |-> FALSE, s |-> text]

\* pd.notna(v) / pd.isna(v)
notna(v) == ~v.na

\* str(v), Series.astype(str): text is kept, the missing value becomes "nan"
str(v) == IF v.na THEN "nan" ELSE v.s

-----------------------------------------------------------------------------
(* Python dict as an insertion-ordered sequence of [k, v] pairs *)

DictKeys(d) == [n \in 1..Len(d) |-> d[n].k]

DictHas(d, key) == \E n \in 1..Len(d) : d[n].k = key

DictGet(d, key) == d[CHOOSE n \in 1..Len(d) : d[n].k = key].v

\* variant: d[key] = val moves an existing key to the end
DictSetAppend(d, key, val) ==
    Append(SelectSeq(d, LAMBDA e : e.k # key), [k |-> key, v |-> val])

\* d[key] = val
DictSet(d, key, val) ==
    IF DictHas(d, key)
    THEN [n \in 1..Len(d) |-> IF d[n].k = key THEN [k |-> key, v |-> val] ELSE d[n]]
    ELSE Append(d, [k |-> key, v |-> val])

\* d.update(other)
RECURSIVE DictUpdate(_, _)
DictUpdate(d, other) ==
    IF other = <<>> THEN d
    ELSE DictUpdate(DictSet(d, Head(other).k, Head(other).v), Tail(other))

\* the column of a DataFrame, by position
Column(df, c) == [r \in 1..Len(df.rows) |-> df.rows[r][c]]

\* list.index(x): position of the first occurrence
IndexOf(seq, x) == CHOOSE n \in 1..Len(seq) : seq[n] = x /\ \A m \in 1..(n-1) : seq[m] # x

InSeq(seq, x) == \E n \in 1..Len(seq) : seq[n] = x

-----------------------------------------------------------------------------
(* 1. ID sheet *)

\* variant: "ID" not in sheets or "GENERAL" not in sheets
MissingIDOrGeneral == ~DictHas(sheets, "ID") \/ ~DictHas(sheets, "GENERAL")

\* "ID" not in sheets
MissingID == ~DictHas(sheets, "ID")

\* variant: [str(v) for v in id_df[col].tolist()], blanks kept
ColumnValuesKeepBlank(df, c) ==
    [r \in 1..Len(df.rows) |-> str(df.rows[r][c])]

\* [str(v) for v in id_df[col].tolist() if pd.notna(v)]
RECURSIVE ValuesFrom(_)
ValuesFrom(cells) ==
    IF cells = <<>> THEN <<>>
    ELSE IF notna(Head(cells))
         THEN <<str(Head(cells))>> \o ValuesFrom(Tail(cells))
         ELSE ValuesFrom(Tail(cells))

ColumnValues(df, c) == ValuesFrom(Column(df, c))

-----------------------------------------------------------------------------
(* 2. GENERAL sheet *)

\* for k, v in row.items(): if pd.notna(v): general[str(k)] = str(v)
RECURSIVE RowItems(_, _, _)
RowItems(d, columns, row) ==
    IF columns = <<>> THEN d
    ELSE RowItems(IF notna(Head(row)) THEN DictSet(d, Head(columns), str(Head(row))) ELSE d,
                  Tail(columns), Tail(row))

\* variant: every row of GENERAL applied in turn, instead of the first row only
RECURSIVE AllRowsItems(_, _, _)
AllRowsItems(d, columns, rows) ==
    IF rows = <<>> THEN d
    ELSE AllRowsItems(RowItems(d, columns, Head(rows)), columns, Tail(rows))

GeneralFromAllRows(shs) ==
    IF DictHas(shs, "GENERAL")
    THEN AllRowsItems(<<>>, DictGet(shs, "GENERAL").columns, DictGet(shs, "GENERAL").rows)
    ELSE <<>>

\* general = {str(k): str(v) for k, v in gen_df.iloc[0].items() if pd.notna(v)}
GeneralFrom(shs) ==
    IF DictHas(shs, "GENERAL")
    THEN LET gen_df == DictGet(shs, "GENERAL")
         IN  IF Len(gen_df.rows) >= 1
             THEN RowItems(<<>>, gen_df.columns, gen_df.rows[1])
             ELSE <<>>
    ELSE <<>>

-----------------------------------------------------------------------------
(* 3. designator sheets: first-column header -> DataFrame *)

\* variant: a repeated first-column header keeps the earlier sheet
RECURSIVE SheetMapFirstWins(_, _)
SheetMapFirstWins(map, shs) ==
    IF shs = <<>> THEN map
    ELSE LET sheet_name == Head(shs).k
             df == Head(shs).v
         IN  IF sheet_name \in {"ID", "GENERAL"} THEN SheetMapFirstWins(map, Tail(shs))
             ELSE IF Len(df.columns) < 1 THEN SheetMapFirstWins(map, Tail(shs))
             ELSE IF DictHas(map, df.columns[1]) THEN SheetMapFirstWins(map, Tail(shs))
             ELSE SheetMapFirstWins(DictSet(map, df.columns[1], df), Tail(shs))

\* for sheet_name, df in sheets.items():
\*     if sheet_name in ("ID", "GENERAL"): continue
\*     if df.shape[1] < 1: continue
\*     designator_sheet_map[df.columns[0]] = df
RECURSIVE SheetMap(_, _)
SheetMap(map, shs) ==
    IF shs = <<>> THEN map
    ELSE LET sheet_name == Head(shs).k
             df == Head(shs).v
         IN  IF sheet_name \in {"ID", "GENERAL"} THEN SheetMap(map, Tail(shs))
             ELSE IF Len(df.columns) < 1 THEN SheetMap(map, Tail(shs))
             ELSE SheetMap(DictSet(map, df.columns[1], df), Tail(shs))

-----------------------------------------------------------------------------
(* Cartesian product and identifier *)

\* any(len(vals) == 0 for vals in lists_of_values)
AnyEmpty(lists) == \E n \in 1..Len(lists) : Len(lists[n]) = 0

\* [x + [y] for x in result for y in pool]
RECURSIVE Extend(_, _)
Extend(result, pool) ==
    IF result = <<>> THEN <<>>
    ELSE [n \in 1..Len(pool) |-> Append(Head(result), pool[n])] \o Extend(Tail(result), pool)

\* variant: [[y] + x for x in result for y in pool], the first axis varies fastest
RECURSIVE ProductFirstFastest(_)
ProductFirstFastest(lists) ==
    IF lists = <<>> THEN << <<>> >>
    ELSE LET rest == ProductFirstFastest(Tail(lists))
             pool == Head(lists)
             Each[n \in 0..Len(rest)] ==
                 IF n = 0 THEN <<>>
                 ELSE Each[n-1] \o [m \in 1..Len(pool) |-> <<pool[m]>> \o rest[n]]
         IN  Each[Len(rest)]

\* itertools.product(*lists): result = [[]]; for pool in pools: result = extend
RECURSIVE ProductFrom(_, _)
ProductFrom(result, pools) ==
    IF pools = <<>> THEN result
    ELSE ProductFrom(Extend(result, Head(pools)), Tail(pools))

Product(lists) == ProductFrom(<< <<>> >>, lists)

\* id_separator.join(parts)
RECURSIVE Join(_, _)
Join(sep, parts) ==
    IF parts = <<>> THEN ""
    ELSE IF Len(parts) = 1 THEN Head(parts)
    ELSE Head(parts) \o sep \o Join(sep, Tail(parts))

-----------------------------------------------------------------------------
(* Field merge *)

\* for col in df.columns[1:]: skip blank cells, bike[str(col)] = str(val)
RECURSIVE ApplyRowFrom(_, _, _, _)
ApplyRowFrom(b, columns, row, c) ==
    IF c > Len(columns) THEN b
    ELSE ApplyRowFrom(IF row[c].na THEN b ELSE DictSet(b, columns[c], str(row[c])),
                      columns, row, c + 1)

ApplyRow(b, columns, row) == ApplyRowFrom(b, columns, row, 2)

\* variant: only the first matching row is applied
ApplyFirstMatch(b, df, value) ==
    IF \E r \in 1..Len(df.rows) : str(df.rows[r][1]) = value
    THEN LET first == CHOOSE r \in 1..Len(df.rows) :
                          /\ str(df.rows[r][1]) = value
                          /\ \A q \in 1..(r-1) : str(df.rows[q][1]) # value
         IN  ApplyRow(b, df.columns, df.rows[first])
    ELSE b

\* mask = df[first_col].astype(str) == str(value); for _, row in df[mask].iterrows()
RECURSIVE ApplyMatchedFrom(_, _, _, _)
ApplyMatchedFrom(b, df, value, r) ==
    IF r > Len(df.rows) THEN b
    ELSE ApplyMatchedFrom(IF str(df.rows[r][1]) = value
                          THEN ApplyRow(b, df.columns, df.rows[r]) ELSE b,
                          df, value, r + 1)

ApplyMatched(b, df, value) == ApplyMatchedFrom(b, df, value, 1)

\* variant: designator_order with the axes taken last to first
RECURSIVE ApplyDesignatorReversed(_, _, _, _, _)
ApplyDesignatorReversed(b, names, map, combo, i) ==
    IF i < 1 THEN b
    ELSE ApplyDesignatorReversed(
             IF DictHas(map, names[i]) THEN ApplyMatched(b, DictGet(map, names[i]), combo[i]) ELSE b,
             names, map, combo, i - 1)

ApplyReversed(b, names, map, combo) ==
    ApplyDesignatorReversed(b, names, map, combo, Len(combo))

\* for i, designator_value in enumerate(combo): (lines 107-122)
RECURSIVE ApplyDesignatorFrom(_, _, _, _, _)
ApplyDesignatorFrom(b, names, map, combo, i) ==
    IF i > Len(combo) THEN b
    ELSE ApplyDesignatorFrom(
             IF DictHas(map, names[i]) THEN ApplyMatched(b, DictGet(map, names[i]), combo[i]) ELSE b,
             names, map, combo, i + 1)

ApplyDesignatorOrder(b, names, map, combo) == ApplyDesignatorFrom(b, names, map, combo, 1)

\* for sheet_designator_name in sheet_application_order[1]: (lines 127-144)
RECURSIVE ApplySheetFrom(_, _, _, _, _, _)
ApplySheetFrom(b, order, names, map, combo, n) ==
    IF n > Len(order) THEN b
    ELSE ApplySheetFrom(
             IF InSeq(names, order[n])
             THEN ApplyMatched(b, DictGet(map, order[n]), combo[IndexOf(names, order[n])])
             ELSE b,
             order, names, map, combo, n + 1)

ApplySheetPriority(b, order, names, map, combo) == ApplySheetFrom(b, order, names, map, combo, 1)

\* bike.update(general) (line 101)
WithGeneral(b, gen) == DictUpdate(b, gen)

\* sheet_application_order (lines 87-92)
ApplicationOrder(prec, names, map) ==
    IF prec = "designator_order"
    THEN [mode |-> "designator_order", order |-> names]
    ELSE [mode |-> "sheet_priority", order |-> DictKeys(map)]

-----------------------------------------------------------------------------
(* Inputs: workbooks, separators and precedence modes *)

MaxIdRows == 2

MaxRows == 2

MaxSheets == 3

Sheet(name, df) == [k |-> name, v |-> df]

DataFrame(columns, rows) == [columns |-> columns, rows |-> rows]

\* every DataFrame with these column headers, at most n rows, cells from these sets
Frames(columns, n, cells) ==
    { DataFrame(columns, rows) :
        rows \in UNION { [1..m -> [1..Len(columns) -> cells]] : m \in 0..n } }

\* every DataFrame with these column headers and at most n rows from rowSet
RowFrames(columns, n, rowSet) ==
    { DataFrame(columns, rows) : rows \in UNION { [1..m -> rowSet] : m \in 0..n } }

AxisCells == {NaN, Cell("a"), Cell("b")}

Separators == {"", "-"}

Modes == {"designator_order", "sheet_priority"}

IdFrames ==
    {DataFrame(<<>>, <<>>)}
    \cup Frames(<<"A">>, MaxIdRows, AxisCells)
    \cup Frames(<<"A", "B">>, MaxIdRows, AxisCells)

OneRowGeneral == DataFrame(<<"m", "f">>, << <<Cell("d"), Cell("d")>> >>)

ColorSheet == DataFrame(<<"A", "f">>, << <<Cell("a"), Cell("u")>>, <<NaN, Cell("v")>> >>)

\* workbooks that vary the ID sheet
AxisWorkbooks ==
    { <<Sheet("ID", id)>> \o rest :
        id \in IdFrames,
        rest \in { <<>>, <<Sheet("GENERAL", OneRowGeneral), Sheet("S1", ColorSheet)>> } }

\* workbooks without a sheet named exactly "ID"
NoIdWorkbooks ==
    { <<>>,
      <<Sheet("id", DataFrame(<<"A">>, << <<Cell("a")>> >>))>>,
      <<Sheet("GENERAL", OneRowGeneral), Sheet("S1", ColorSheet)>> }

TwoValueId == DataFrame(<<"A">>, << <<Cell("a")>>, <<Cell("b")>> >>)

\* workbooks that vary the rows of one override sheet
RowWorkbooks ==
    { <<Sheet("ID", TwoValueId), Sheet("GENERAL", OneRowGeneral), Sheet("S1", df)>> :
        df \in RowFrames(<<"A", "f", "g">>, MaxRows,
                         AxisCells \X {NaN, Cell("u"), Cell("v")} \X {NaN, Cell("u")}) }

OneComboIds ==
    { DataFrame(<<"A", "B">>, << <<Cell("a"), Cell("a")>> >>),
      DataFrame(<<"B", "A">>, << <<Cell("a"), Cell("a")>> >>) }

SmallSheets ==
    {DataFrame(<<>>, <<>>)}
    \cup { DataFrame(<<h, "f">>, << <<Cell("a"), Cell(x)>> >>) :
             h \in {"A", "B"}, x \in {"u", "v", "w"} }
    \cup { DataFrame(<<"C", "f">>, << <<Cell("a"), Cell("u")>> >>),
           DataFrame(<<"A", "f">>, << <<Cell("b"), Cell("u")>> >>) }

SheetName(n) == "S" \o ToString(n)

\* workbooks that vary the number, order and key of the override sheets
SheetWorkbooks ==
    { <<Sheet("ID", id)>> \o [n \in 1..Len(dfs) |-> Sheet(SheetName(n), dfs[n])] :
        id \in OneComboIds,
        dfs \in UNION { [1..m -> SmallSheets] : m \in 0..MaxSheets } }

GeneralFrames ==
    Frames(<<"m", "f">>, 2, {NaN, Cell("d"), Cell("e")})
    \cup Frames(<<"ID", "m">>, 1, {NaN, Cell("d")})

\* workbooks that vary the GENERAL sheet
GeneralWorkbooks ==
    { <<Sheet("ID", TwoValueId)>> \o gen \o rest :
        gen \in {<<>>} \cup { <<Sheet("GENERAL", g)>> : g \in GeneralFrames },
        rest \in { <<>>, <<Sheet("S1", ColorSheet)>>,
                   <<Sheet("S1", DataFrame(<<"A", "m", "ID">>,
                                           << <<Cell("a"), Cell("u"), Cell("x")>> >>))>> } }

\* the calls made: every separator with the workbooks that vary the ID sheet
Calls ==
    { <<wb, sep, mode>> :
        wb \in AxisWorkbooks \cup NoIdWorkbooks, sep \in Separators, mode \in Modes }
    \cup { <<wb, "-", mode>> :
        wb \in RowWorkbooks \cup SheetWorkbooks \cup GeneralWorkbooks, mode \in Modes }

-----------------------------------------------------------------------------
(* The call generate_bicycles_from_sheets(sheets, id_separator, precedence) *)

Init ==
    /\ \E call \in Calls :
           /\ sheets = call[1]
           /\ id_separator = call[2]
           /\ precedence = call[3]
    /\ pc = "start"
    /\ designator_names = <<>>
    /\ lists_of_values = <<>>
    /\ general = <<>>
    /\ designator_sheet_map = <<>>
    /\ combos = <<>>
    /\ sheet_application_order = [mode |-> "", order |-> <<>>]
    /\ ci = 0
    /\ bike = <<>>
    /\ bicycles = <<>>

\* lines 46-47: raise ValueError
RaiseMissingID ==
    /\ pc = "start"
    /\ MissingID
    /\ pc' = "raised"
    /\ UNCHANGED <<inputs, designator_names, lists_of_values, general,
                   designator_sheet_map, combos, sheet_application_order,
                   ci, bike, bicycles>>

\* lines 48-55
ReadID ==
    /\ pc = "start"
    /\ ~MissingID
    /\ LET id_df == DictGet(sheets, "ID")
       IN  /\ designator_names' = id_df.columns
           /\ lists_of_values' = [c \in 1..Len(id_df.columns) |-> ColumnValues(id_df, c)]
    /\ pc' = "general"
    /\ UNCHANGED <<inputs, general, designator_sheet_map, combos,
                   sheet_application_order, ci, bike, bicycles>>

\* lines 58-65
ReadGeneral ==
    /\ pc = "general"
    /\ general' = GeneralFrom(sheets)
    /\ pc' = "sheets"
    /\ UNCHANGED <<inputs, designator_names, lists_of_values, designator_sheet_map,
                   combos, sheet_application_order, ci, bike, bicycles>>

\* lines 68-76
MapSheets ==
    /\ pc = "sheets"
    /\ designator_sheet_map' = SheetMap(<<>>, sheets)
    /\ pc' = "guard"
    /\ UNCHANGED <<inputs, designator_names, lists_of_values, general,
                   combos, sheet_application_order, ci, bike, bicycles>>

\* lines 79-80: return []
ReturnEmpty ==
    /\ pc = "guard"
    /\ AnyEmpty(lists_of_values)
    /\ bicycles' = <<>>
    /\ pc' = "returned"
    /\ UNCHANGED <<inputs, designator_names, lists_of_values, general,
                   designator_sheet_map, combos, sheet_application_order, ci, bike>>

\* lines 83-92
Combine ==
    /\ pc = "guard"
    /\ ~AnyEmpty(lists_of_values)
    /\ combos' = Product(lists_of_values)
    /\ sheet_application_order' =
           ApplicationOrder(precedence, designator_names, designator_sheet_map)
    /\ ci' = 1
    /\ pc' = "loop"
    /\ UNCHANGED <<inputs, designator_names, lists_of_values, general,
                   designator_sheet_map, bike, bicycles>>

\* lines 94-98: the next combo's record, seeded with its ID
SeedBike ==
    /\ pc = "loop"
    /\ ci <= Len(combos)
    /\ bike' = <<[k |-> "ID", v |-> Join(id_separator, combos[ci])]>>
    /\ pc' = "merge"
    /\ UNCHANGED <<inputs, designator_names, lists_of_values, general,
                   designator_sheet_map, combos, sheet_application_order, ci, bicycles>>

\* lines 101, 104-122, 146
MergeDesignatorOrder ==
    /\ pc = "merge"
    /\ sheet_application_order.mode = "designator_order"
    /\ bike' = ApplyDesignatorOrder(WithGeneral(bike, general), designator_names,
                                    designator_sheet_map, combos[ci])
    /\ bicycles' = Append(bicycles, bike')
    /\ ci' = ci + 1
    /\ pc' = "loop"
    /\ UNCHANGED <<inputs, designator_names, lists_of_values, general,
                   designator_sheet_map, combos, sheet_application_order>>

\* lines 101, 123-144, 146
MergeSheetPriority ==
    /\ pc = "merge"
    /\ sheet_application_order.mode # "designator_order"
    /\ bike' = ApplySheetPriority(WithGeneral(bike, general), sheet_application_order.order,
                                  designator_names, designator_sheet_map, combos[ci])
    /\ bicycles' = Append(bicycles, bike')
    /\ ci' = ci + 1
    /\ pc' = "loop"
    /\ UNCHANGED <<inputs, designator_names, lists_of_values, general,
                   designator_sheet_map, combos, sheet_application_order>>

\* line 148: return bicycles
Return ==
    /\ pc = "loop"
    /\ ci > Len(combos)
    /\ pc' = "returned"
    /\ UNCHANGED <<inputs, designator_names, lists_of_values, general,
                   designator_sheet_map, combos, sheet_application_order,
                   ci, bike, bicycles>>

Next ==
    \/ RaiseMissingID
    \/ ReadID
    \/ ReadGeneral
    \/ MapSheets
    \/ ReturnEmpty
    \/ Combine
    \/ SeedBike
    \/ MergeDesignatorOrder
    \/ MergeSheetPriority
    \/ Return

Spec == Init /\ [][Next]_vars

-----------------------------------------------------------------------------
(* What the workbook says, read off the input independently of the run *)

Max(S) == CHOOSE x \in S : \A y \in S : y <= x

Min(S) == CHOOSE x \in S : \A y \in S : x <= y

HasIdTable == \E n \in 1..Len(sheets) : sheets[n].k = "ID"

IdTable == sheets[CHOOSE n \in 1..Len(sheets) : sheets[n].k = "ID"].v

AxisCount == Len(IdTable.columns)

\* the non-blank cells of axis j, top to bottom
AxisValues(j) ==
    LET kept == SelectSeq(Column(IdTable, j), LAMBDA cell : cell # NaN)
    IN  [r \in 1..Len(kept) |-> kept[r].s]

AxisSize(j) == Len(AxisValues(j))

RECURSIVE ProductOfCardinalities(_)
ProductOfCardinalities(j) ==
    IF j > AxisCount THEN 1 ELSE AxisSize(j) * ProductOfCardinalities(j + 1)

ExpectedCount == ProductOfCardinalities(1)

\* the n-th tuple (n from 1) of the lexicographic product, last axis fastest
ExpectedTuple(n) ==
    [j \in 1..AxisCount |->
        AxisValues(j)[(((n - 1) \div ProductOfCardinalities(j + 1)) % AxisSize(j)) + 1]]

\* the values of a tuple joined left to right with the separator
ExpectedId(tuple) ==
    LET Joined[j \in 0..Len(tuple)] ==
            IF j = 0 THEN ""
            ELSE IF j = 1 THEN tuple[1]
            ELSE Joined[j - 1] \o id_separator \o tuple[j]
    IN  Joined[Len(tuple)]

SomeAxisEmpty == \E j \in 1..AxisCount : AxisSize(j) = 0

NoAxisRepeats ==
    \A j \in 1..AxisCount : \A r, q \in 1..AxisSize(j) :
        r # q => AxisValues(j)[r] # AxisValues(j)[q]

-----------------------------------------------------------------------------
(* C1: the seed identifiers, in order, are the joined tuples of the         *)
(* lexicographic cartesian product of the non-blank axis values (last axis  *)
(* fastest), for every separator; with an empty axis there are none.        *)
C1_SeedIdentifiers ==
    /\ pc = "merge" =>
         /\ ci = Len(bicycles) + 1
         /\ ci <= ExpectedCount
         /\ bike = <<[k |-> "ID", v |-> ExpectedId(ExpectedTuple(ci))]>>
    /\ pc = "returned" =>
         /\ Len(bicycles) = ExpectedCount
         /\ SomeAxisEmpty => bicycles = <<>>

C1_Witness ==
    /\ pc = "merge"
    /\ ci = 3
    /\ AxisCount = 2
    /\ ExpectedCount = 4
    /\ id_separator = ""
    /\ ExpectedTuple(2) # ExpectedTuple(3)

(* C2 as stated: exactly n1*...*nk combinations, and no two output records  *)
(* come from the same value tuple.                                          *)
C2_DistinctTuples ==
    pc = "returned" =>
        /\ Len(bicycles) = ExpectedCount
        /\ \A n, m \in 1..Len(combos) : n # m => combos[n] # combos[m]

(* C2 amended: exactly n1*...*nk combinations, each one value per axis      *)
(* drawn from that axis, covering every such tuple; they are pairwise       *)
(* distinct when no axis lists the same value twice.                        *)
C2_CountAndTuples ==
    pc = "returned" =>
      /\ Len(bicycles) = ExpectedCount
      /\ ~SomeAxisEmpty =>
        /\ Len(combos) = ExpectedCount
        /\ \A n \in 1..Len(combos) :
             /\ Len(combos[n]) = AxisCount
             /\ \A j \in 1..AxisCount :
                  \E r \in 1..AxisSize(j) : combos[n][j] = AxisValues(j)[r]
        /\ \A pick \in [1..AxisCount -> 1..MaxIdRows] :
             (\A j \in 1..AxisCount : pick[j] <= AxisSize(j)) =>
                 \E n \in 1..Len(combos) :
                     \A j \in 1..AxisCount : combos[n][j] = AxisValues(j)[pick[j]]
        /\ NoAxisRepeats =>
             \A n, m \in 1..Len(combos) : n # m => combos[n] # combos[m]

C2_Witness ==
    /\ pc = "returned"
    /\ AxisCount = 2
    /\ NoAxisRepeats
    /\ Len(bicycles) = 4

(* C3: the call fails exactly when no sheet is named "ID" (the name taken    *)
(* as written); with an "ID" sheet it never fails, whatever else is         *)
(* irregular in the workbook: past the ID check and past the empty-axis     *)
(* guard it always has a next step.                                         *)
C3_FailsOnlyWithoutID ==
    /\ pc = "raised" => ~HasIdTable
    /\ ~HasIdTable => pc \in {"start", "raised"}
    /\ HasIdTable => pc # "raised"
    /\ pc \in {"start", "guard"} => ENABLED Next

C3_Witness ==
    /\ pc = "raised"
    /\ \E n \in 1..Len(sheets) : sheets[n].k = "id"

-----------------------------------------------------------------------------
(* Override tables and the fields they set, read off the workbook *)

\* sheet n is an override table: not "ID", not "GENERAL", at least one column
IsOverride(n) ==
    /\ sheets[n].k \notin {"ID", "GENERAL"}
    /\ Len(sheets[n].v.columns) >= 1

KeyHeader(n) == sheets[n].v.columns[1]

\* the positions of the override tables keyed by header h
Keyed(h) == { n \in 1..Len(sheets) : IsOverride(n) /\ KeyHeader(n) = h }

KeyHeaders == { KeyHeader(n) : n \in { m \in 1..Len(sheets) : IsOverride(m) } }

\* the table that stands for header h: the last one keyed by h
Surviving(h) == sheets[Max(Keyed(h))].v

AxisNames == IdTable.columns

AxisIndex(h) == CHOOSE j \in 1..AxisCount : AxisNames[j] = h

\* the key headers that name a declared axis
AppliedHeaders == { h \in KeyHeaders : \E j \in 1..AxisCount : AxisNames[j] = h }

\* every attribute name a record could carry
AttributeNames ==
    {"ID"} \cup UNION { { sheets[n].v.columns[c] : c \in 1..Len(sheets[n].v.columns) } :
                        n \in 1..Len(sheets) }

\* the fields table h sets for this tuple: the non-blank cells, outside the key
\* column, of the rows whose key equals the tuple's value on axis h
FieldsOf(h, tuple) ==
    LET df == Surviving(h)
    IN  { [h |-> h, r |-> rc[1], c |-> rc[2],
           k |-> df.columns[rc[2]], v |-> df.rows[rc[1]][rc[2]].s] :
            rc \in { x \in (1..Len(df.rows)) \X (2..Len(df.columns)) :
                       /\ df.rows[x[1]][1] = Cell(tuple[AxisIndex(h)])
                       /\ df.rows[x[1]][x[2]] # NaN } }

\* all the fields the override tables set for this tuple
Fields(tuple) == UNION { FieldsOf(h, tuple) : h \in AppliedHeaders }

\* the orders in which tables are applied
ByAxis(h) == AxisIndex(h)

ByFirstTable(h) == Min(Keyed(h))

ByLastTable(h) == Max(Keyed(h))

\* field x is applied after field y: later table, else later row, else later column
After(Rank(_), x, y) ==
    \/ Rank(x.h) > Rank(y.h)
    \/ Rank(x.h) = Rank(y.h) /\ x.r > y.r
    \/ Rank(x.h) = Rank(y.h) /\ x.r = y.r /\ x.c > y.c

\* the field that is applied last among those that set attribute k
LastField(Rank(_), F, k) ==
    CHOOSE x \in F : x.k = k /\ \A y \in F : y.k = k => ~After(Rank, y, x)

\* SharedDefaults: the non-blank cells of the first data row of "GENERAL"
Defaults ==
    IF \E n \in 1..Len(sheets) : sheets[n].k = "GENERAL"
    THEN LET df == sheets[CHOOSE n \in 1..Len(sheets) : sheets[n].k = "GENERAL"].v
         IN  IF Len(df.rows) = 0 THEN {}
             ELSE { [k |-> df.columns[c], v |-> df.rows[1][c].s] :
                      c \in { d \in 1..Len(df.columns) : df.rows[1][d] # NaN } }
    ELSE {}

DefaultKeys == { d.k : d \in Defaults }

DefaultOf(k) == (CHOOSE d \in Defaults : d.k = k).v

\* a dict read as a set of pairs
Pairs(d) == { d[n] : n \in 1..Len(d) }

\* record b is the seed, overlaid by the defaults, overlaid by the fields in
\* the order Rank applies the tables
Layered(Rank(_), b, tuple) ==
    LET F == Fields(tuple)
    IN  /\ \A n \in 1..Len(b) : b[n].k \in AttributeNames
        /\ \A n, m \in 1..Len(b) : n # m => b[n].k # b[m].k
        /\ \A k \in AttributeNames :
             IF \E x \in F : x.k = k
             THEN DictHas(b, k) /\ DictGet(b, k) = LastField(Rank, F, k).v
             ELSE IF k \in DefaultKeys
             THEN DictHas(b, k) /\ DictGet(b, k) = DefaultOf(k)
             ELSE IF k = "ID"
             THEN DictHas(b, k) /\ DictGet(b, k) = ExpectedId(tuple)
             ELSE ~DictHas(b, k)

\* the attributes two different applied tables both set for this tuple
Contested(tuple) ==
    { k \in AttributeNames :
        \E x, y \in Fields(tuple) : x.k = k /\ y.k = k /\ x.h # y.h }

-----------------------------------------------------------------------------
(* C4: in designator_order mode every record is the seed and defaults       *)
(* overlaid by the override fields, tables taken once per axis in axis      *)
(* declaration order (rows, then columns, in order); on an attribute set    *)
(* through two axes the later declared axis wins; axes without a table or   *)
(* a matching row add nothing.                                              *)
C4_DesignatorOrder ==
    pc = "returned" /\ precedence = "designator_order" =>
        \A n \in 1..Len(bicycles) : Layered(ByAxis, bicycles[n], ExpectedTuple(n))

C4_Witness ==
    /\ pc = "returned"
    /\ precedence = "designator_order"
    /\ Len(bicycles) >= 1
    /\ \E k \in Contested(ExpectedTuple(1)) :
         \E x, y \in Fields(ExpectedTuple(1)) :
            /\ x.k = k /\ y.k = k /\ x.v # y.v
            /\ AxisIndex(x.h) < AxisIndex(y.h)
            /\ Min(Keyed(x.h)) > Max(Keyed(y.h))
            /\ DictGet(bicycles[1], k) = y.v
    /\ KeyHeaders # AppliedHeaders

(* C5 as stated: in sheet_priority mode the tables are applied in the       *)
(* iteration order of the input mapping after last-wins deduplication, that *)
(* is each surviving table at its own place among the sheets; tables keyed  *)
(* by no declared axis add nothing; the later applied table wins.           *)
C5_SheetPriority ==
    pc = "returned" /\ precedence = "sheet_priority" =>
        \A n \in 1..Len(bicycles) : Layered(ByLastTable, bicycles[n], ExpectedTuple(n))

(* C10: in sheet_priority mode the surviving table of a repeated key header *)
(* is applied at the place of the first table with that header: the keys of *)
(* the table map stand in order of first appearance, and every record is    *)
(* the overlay of the fields in that order, so with sheets T1(X), T2(Y),    *)
(* T3(X) the value of T2 wins over that of T3.                              *)
C10_FirstPlaceKept ==
    /\ pc \in {"guard", "loop", "merge", "returned"} =>
         /\ { designator_sheet_map[n].k : n \in 1..Len(designator_sheet_map) } = KeyHeaders
         /\ \A n, m \in 1..Len(designator_sheet_map) :
              n < m => Min(Keyed(designator_sheet_map[n].k))
                         < Min(Keyed(designator_sheet_map[m].k))
    /\ pc = "returned" /\ precedence = "sheet_priority" =>
         \A n \in 1..Len(bicycles) : Layered(ByFirstTable, bicycles[n], ExpectedTuple(n))

\* sheets T1(X), T2(Y), T3(X), in that order, T2 and T3 setting k differently
ShadowedOrder(tuple, k) ==
    \E x, y \in Fields(tuple) :
        /\ x.k = k /\ y.k = k /\ x.v # y.v
        /\ Min(Keyed(x.h)) < Max(Keyed(y.h))
        /\ Max(Keyed(y.h)) < Max(Keyed(x.h))
        /\ Keyed(y.h) = {Max(Keyed(y.h))}
        /\ \A z \in Fields(tuple) : z.k = k => z.h \in {x.h, y.h}

C10_Witness ==
    /\ pc = "returned"
    /\ precedence = "sheet_priority"
    /\ Len(bicycles) >= 1
    /\ \E k \in AttributeNames :
         /\ ShadowedOrder(ExpectedTuple(1), k)
         /\ \E x, y \in Fields(ExpectedTuple(1)) :
              /\ x.k = k /\ y.k = k /\ x.v # y.v
              /\ Max(Keyed(y.h)) < Max(Keyed(x.h))
              /\ DictGet(bicycles[1], k) = y.v

-----------------------------------------------------------------------------
(* The two modes side by side: the record each mode builds for a tuple *)

SeedOf(tuple) == <<[k |-> "ID", v |-> Join(id_separator, tuple)]>>

DesignatorRecord(tuple) ==
    ApplyDesignatorOrder(WithGeneral(SeedOf(tuple), GeneralFrom(sheets)),
                         AxisNames, SheetMap(<<>>, sheets), tuple)

SheetRecord(tuple) ==
    ApplySheetPriority(WithGeneral(SeedOf(tuple), GeneralFrom(sheets)),
                       DictKeys(SheetMap(<<>>, sheets)),
                       AxisNames, SheetMap(<<>>, sheets), tuple)

\* the value table h leaves in attribute k for this tuple
TableValue(h, tuple, k) == LastField(ByAxis, FieldsOf(h, tuple), k).v

\* tables x.h and y.h, keyed by different declared axes, both set k for the
\* tuple, to different values, and no other table sets k; x.h is declared first
Conflict(tuple, k, x, y) ==
    /\ x.k = k /\ y.k = k /\ x.h # y.h
    /\ TableValue(x.h, tuple, k) # TableValue(y.h, tuple, k)
    /\ \A z \in Fields(tuple) : z.k = k => z.h \in {x.h, y.h}
    /\ AxisIndex(x.h) < AxisIndex(y.h)

\* the modes disagree on k, each giving the value of the table it applies later
Diverge(tuple, k, x, y) ==
    /\ DictGet(DesignatorRecord(tuple), k) = TableValue(y.h, tuple, k)
    /\ DictGet(SheetRecord(tuple), k) = TableValue(x.h, tuple, k)
    /\ DictGet(DesignatorRecord(tuple), k) # DictGet(SheetRecord(tuple), k)

RunRecord(tuple) ==
    IF precedence = "designator_order" THEN DesignatorRecord(tuple) ELSE SheetRecord(tuple)

(* C6 as stated: two tables keyed by different declared axes set the same   *)
(* attribute differently for a combination and no other table sets it; if   *)
(* the table of the later declared axis is discovered first among the       *)
(* sheets, the two modes give different final values, each the value of the *)
(* table that mode applies later.                                           *)
C6_PrecedenceDivergence ==
    pc = "returned" =>
        \A n \in 1..Len(bicycles) :
            LET tuple == ExpectedTuple(n)
            IN  /\ bicycles[n] = RunRecord(tuple)
                /\ \A k \in Contested(tuple) : \A x, y \in Fields(tuple) :
                       /\ Conflict(tuple, k, x, y)
                       /\ Max(Keyed(y.h)) < Max(Keyed(x.h))
                       => Diverge(tuple, k, x, y)

\* the same with the order of discovery taken per key header, at its first table
DivergenceByFirstTable ==
    pc = "returned" =>
        \A n \in 1..Len(bicycles) :
            LET tuple == ExpectedTuple(n)
            IN  /\ bicycles[n] = RunRecord(tuple)
                /\ \A k \in Contested(tuple) : \A x, y \in Fields(tuple) :
                       /\ Conflict(tuple, k, x, y)
                       /\ Min(Keyed(y.h)) < Min(Keyed(x.h))
                       => Diverge(tuple, k, x, y)

-----------------------------------------------------------------------------
(* C7: the defaults held by the run are the non-blank cells of the first    *)
(* row of "GENERAL" (none without the sheet or without rows); every record  *)
(* has every default key, with the default's value unless an applied        *)
(* override row sets that key; without defaults a record has only "ID" and  *)
(* the keys its overrides set.                                              *)
C7_DefaultLayering ==
    /\ pc \in {"sheets", "guard", "loop", "merge", "returned"} =>
         /\ Pairs(general) = Defaults
         /\ Len(general) = Cardinality(Defaults)
    /\ pc = "returned" =>
         \A n \in 1..Len(bicycles) :
             LET b == bicycles[n]
                 set == { x.k : x \in Fields(ExpectedTuple(n)) }
             IN  /\ \A k \in DefaultKeys :
                        /\ DictHas(b, k)
                        /\ k \notin set => DictGet(b, k) = DefaultOf(k)
                 /\ Defaults = {} =>
                        { b[m].k : m \in 1..Len(b) } = {"ID"} \cup set

C7_Witness ==
    /\ pc = "returned"
    /\ Len(bicycles) = 2
    /\ \E n \in 1..Len(sheets) :
         /\ sheets[n].k = "GENERAL"
         /\ Len(sheets[n].v.rows) = 2
         /\ sheets[n].v.rows[1] # sheets[n].v.rows[2]
         /\ \E c \in 1..Len(sheets[n].v.columns) : sheets[n].v.rows[1][c] = NaN
    /\ Cardinality(Defaults) = 1
    /\ \E k \in DefaultKeys :
         /\ k \in { x.k : x \in Fields(ExpectedTuple(1)) }
         /\ k \notin { x.k : x \in Fields(ExpectedTuple(2)) }
         /\ DictGet(bicycles[1], k) # DefaultOf(k)
         /\ DictGet(bicycles[2], k) = DefaultOf(k)

-----------------------------------------------------------------------------
(* C8: rows of one table that share a key matching the combination merge in *)
(* row order: an attribute takes the value of the latest of those rows that *)
(* sets it, a blank cell in a later row erasing nothing, in both modes      *)
(* (the value stands in the record unless a table applied later sets the    *)
(* attribute again).                                                        *)
RankOfMode(h) == IF precedence = "designator_order" THEN ByAxis(h) ELSE ByFirstTable(h)

C8_RowMerge ==
    pc = "returned" =>
        \A n \in 1..Len(bicycles) :
            LET tuple == ExpectedTuple(n)
            IN  \A h \in AppliedHeaders : \A k \in AttributeNames :
                    LET rows == { x.r : x \in { y \in FieldsOf(h, tuple) : y.k = k } }
                        col == CHOOSE c \in 1..Len(Surviving(h).columns) :
                                   Surviving(h).columns[c] = k
                    IN  /\ rows # {}
                        /\ \A z \in Fields(tuple) : z.k = k => RankOfMode(z.h) <= RankOfMode(h)
                        => /\ DictHas(bicycles[n], k)
                           /\ DictGet(bicycles[n], k) = Surviving(h).rows[Max(rows)][col].s

C8_Witness ==
    /\ pc = "returned"
    /\ Len(bicycles) >= 1
    /\ \E h \in AppliedHeaders :
         LET df == Surviving(h)
             value == ExpectedTuple(1)[AxisIndex(h)]
         IN  /\ Len(df.rows) = 2
             /\ Len(df.columns) = 3
             /\ df.rows[1][1] = Cell(value) /\ df.rows[2][1] = Cell(value)
             /\ df.rows[1][2] # NaN /\ df.rows[2][2] # NaN
             /\ df.rows[1][2] # df.rows[2][2]
             /\ df.rows[1][3] # NaN /\ df.rows[2][3] = NaN
             /\ DictGet(bicycles[1], df.columns[2]) = df.rows[2][2].s
             /\ DictGet(bicycles[1], df.columns[3]) = df.rows[1][3].s

-----------------------------------------------------------------------------
(* C9: of the override tables that share a first-column header only the     *)
(* last one is kept, whole; a zero-column sheet neither enters the map nor  *)
(* displaces a table; in both modes every value of a record is the seed, a  *)
(* default, or a field of a kept table, never a field of a replaced one.    *)
C9_WholeTableLastWins ==
    /\ pc \in {"guard", "loop", "merge", "returned"} =>
         /\ Len(designator_sheet_map) = Cardinality(KeyHeaders)
         /\ \A h \in KeyHeaders :
              /\ DictHas(designator_sheet_map, h)
              /\ DictGet(designator_sheet_map, h) = sheets[Max(Keyed(h))].v
    /\ pc = "returned" =>
         \A n \in 1..Len(bicycles) : \A m \in 1..Len(bicycles[n]) :
             LET tuple == ExpectedTuple(n)
                 k == bicycles[n][m].k
                 v == bicycles[n][m].v
             IN  \/ \E x \in Fields(tuple) : x.k = k /\ x.v = v
                 \/ /\ ~\E x \in Fields(tuple) : x.k = k
                    /\ \/ k \in DefaultKeys /\ v = DefaultOf(k)
                       \/ k \notin DefaultKeys /\ k = "ID" /\ v = ExpectedId(tuple)

\* a replaced table had a matching row setting a field the record does not show
C9_Witness ==
    /\ pc = "returned"
    /\ Len(bicycles) >= 1
    /\ \E n \in 1..Len(sheets) : sheets[n].k # "ID" /\ Len(sheets[n].v.columns) = 0
    /\ \E h \in AppliedHeaders :
         /\ Cardinality(Keyed(h)) = 2
         /\ LET old == sheets[Min(Keyed(h))].v
                value == ExpectedTuple(1)[AxisIndex(h)]
            IN  /\ Len(old.rows) = 1
                /\ old.rows[1][1] = Cell(value)
                /\ old.rows[1][2] # NaN
                /\ DictHas(bicycles[1], old.columns[2])
                /\ DictGet(bicycles[1], old.columns[2]) # old.rows[1][2].s

====
